---- MODULE Spec2Model ----
(***************************************************************************)
(* Model of the two edge functions of the trading-bot dashboard:           *)
(*   netlify/edge-functions/processAlert.edge.js   (alert processor)       *)
(*   netlify/edge-functions/generateWebhook.edge.js (webhook issuer)       *)
(*                                                                         *)
(* Part 1 models the JavaScript Number arithmetic used by the quantity     *)
(* normalization (IEEE-754 binary64, round to nearest, ties to even) on    *)
(* exact naturals held as little-endian sequences of 15-bit limbs, so that *)
(* parseFloat, /, Math.floor, *, < and toFixed are computed as the engine  *)
(* computes them.  Only non-negative finite values occur.                  *)
(***************************************************************************)
EXTENDS Integers, Sequences, FiniteSets, TLC

\* ------------------------------------------------------------------------
\* Exact naturals (limb sequences, least significant limb first, no leading
\* zero limb; the empty sequence is 0).
\* ------------------------------------------------------------------------
LimbBits == 15

Base == 32768

MantBits == 53

RECURSIVE Pow(_, _)
Pow(b, n) == IF n = 0 THEN 1 ELSE b * Pow(b, n - 1)

RECURSIVE BNorm(_)
BNorm(a) ==
  IF a = <<>> THEN a
  ELSE IF a[Len(a)] = 0 THEN BNorm(SubSeq(a, 1, Len(a) - 1)) ELSE a

RECURSIVE BFromInt(_)
BFromInt(n) == IF n = 0 THEN <<>> ELSE <<n % Base>> \o BFromInt(n \div Base)

RECURSIVE BToInt(_)
BToInt(a) == IF a = <<>> THEN 0 ELSE Head(a) + Base * BToInt(Tail(a))

BZero == <<>>

BOne == <<1>>

RECURSIVE BAddC(_, _, _)
BAddC(a, b, c) ==
  IF a = <<>> /\ b = <<>> THEN (IF c = 0 THEN <<>> ELSE <<c>>)
  ELSE LET x == (IF a = <<>> THEN 0 ELSE Head(a))
                + (IF b = <<>> THEN 0 ELSE Head(b)) + c
       IN  <<x % Base>> \o BAddC(IF a = <<>> THEN a ELSE Tail(a),
                                 IF b = <<>> THEN b ELSE Tail(b),
                                 x \div Base)

BAdd(a, b) == BAddC(a, b, 0)

\* a - b for a >= b
RECURSIVE BSubB(_, _, _)
BSubB(a, b, br) ==
  IF a = <<>> THEN <<>>
  ELSE LET x == Head(a) - (IF b = <<>> THEN 0 ELSE Head(b)) - br
       IN  <<IF x < 0 THEN x + Base ELSE x>>
             \o BSubB(Tail(a), IF b = <<>> THEN b ELSE Tail(b),
                      IF x < 0 THEN 1 ELSE 0)

BSub(a, b) == BNorm(BSubB(a, b, 0))

RECURSIVE BCmpTop(_, _, _)
BCmpTop(a, b, i) ==
  IF i = 0 THEN 0
  ELSE IF a[i] < b[i] THEN -1
  ELSE IF a[i] > b[i] THEN 1
  ELSE BCmpTop(a, b, i - 1)

\* -1, 0 or 1 as a < b, a = b, a > b
BCmp(a, b) ==
  IF Len(a) < Len(b) THEN -1
  ELSE IF Len(a) > Len(b) THEN 1
  ELSE BCmpTop(a, b, Len(a))

\* a * k for 0 <= k < Base
RECURSIVE BMulSmallC(_, _, _)
BMulSmallC(a, k, c) ==
  IF a = <<>> THEN (IF c = 0 THEN <<>> ELSE <<c>>)
  ELSE LET x == Head(a) * k + c
       IN  <<x % Base>> \o BMulSmallC(Tail(a), k, x \div Base)

BMulSmall(a, k) == IF k = 0 THEN <<>> ELSE BMulSmallC(a, k, 0)

RECURSIVE BMul(_, _)
BMul(a, b) ==
  IF a = <<>> \/ b = <<>> THEN <<>>
  ELSE LET rest == BMul(a, Tail(b))
       IN  BAdd(BMulSmall(a, Head(b)),
                IF rest = <<>> THEN rest ELSE <<0>> \o rest)

RECURSIVE ZeroLimbs(_)
ZeroLimbs(n) == IF n = 0 THEN <<>> ELSE <<0>> \o ZeroLimbs(n - 1)

\* a * 2^s
BShl(a, s) ==
  IF a = <<>> THEN a
  ELSE ZeroLimbs(s \div LimbBits) \o BMulSmall(a, Pow(2, s % LimbBits))

RECURSIVE IntBitLen(_)
IntBitLen(n) == IF n = 0 THEN 0 ELSE 1 + IntBitLen(n \div 2)

BBitLen(a) ==
  IF a = <<>> THEN 0 ELSE LimbBits * (Len(a) - 1) + IntBitLen(a[Len(a)])

BIsOdd(a) == a # <<>> /\ Head(a) % 2 = 1

\* <<r div b, r mod b>> for r < b * 2^(i+1): one quotient limb, bit by bit
RECURSIVE BDigit(_, _, _)
BDigit(r, b, i) ==
  IF i < 0 THEN <<0, r>>
  ELSE LET bi == BMulSmall(b, Pow(2, i))
       IN  IF BCmp(r, bi) >= 0
           THEN LET d == BDigit(BSub(r, bi), b, i - 1)
                IN  <<d[1] + Pow(2, i), d[2]>>
           ELSE BDigit(r, b, i - 1)

\* <<a div b, a mod b>> for b > 0, by long division, a limb at a time
RECURSIVE BDivMod(_, _)
BDivMod(a, b) ==
  IF BCmp(a, b) < 0 THEN <<BZero, a>>
  ELSE LET qr == BDivMod(a, <<0>> \o b)
           dg == BDigit(qr[2], b, LimbBits - 1)
       IN  <<BNorm(<<dg[1]>> \o qr[1]), dg[2]>>

\* ------------------------------------------------------------------------
\* binary64 values: [m, e] stands for m * 2^e with 2^52 <= m < 2^53, or 0.
\* ------------------------------------------------------------------------
FZero == [m |-> BZero, e |-> 0]

\* floor(num * 2^s / den) and the remainder, s of either sign
ScaledDivMod(num, den, s) ==
  IF s >= 0 THEN BDivMod(BShl(num, s), den)
  ELSE BDivMod(num, BShl(den, -s))

\* den * 2^-s when s < 0, den otherwise: the divisor ScaledDivMod divides by
ScaledDen(den, s) == IF s >= 0 THEN den ELSE BShl(den, -s)

\* Round to nearest, ties to even: q is the truncated significand, rem the
\* remainder of the division by d; the value is (q + rem/d) * 2^e
RoundNearestEven(q, rem, d, e) ==
  IF BCmp(BAdd(rem, rem), d) > 0 \/ (BCmp(BAdd(rem, rem), d) = 0 /\ BIsOdd(q))
  THEN IF BBitLen(BAdd(q, BOne)) > MantBits
       THEN [m |-> BDivMod(BAdd(q, BOne), <<2>>)[1], e |-> e + 1]
       ELSE [m |-> BAdd(q, BOne), e |-> e]
  ELSE [m |-> q, e |-> e]

\* num/den * 2^e with the quotient scaled by 2^s to 53 or 54 bits (qr); one
\* bit less is taken when it has 54
RoundScaled(num, den, e, s, qr) ==
  IF BBitLen(qr[1]) > MantBits
  THEN RoundNearestEven(ScaledDivMod(num, den, s - 1)[1],
                        ScaledDivMod(num, den, s - 1)[2],
                        ScaledDen(den, s - 1), e - s + 1)
  ELSE RoundNearestEven(qr[1], qr[2], ScaledDen(den, s), e - s)

\* The binary64 nearest to num/den * 2^e (ties to even)
RoundToDouble(num, den, e) ==
  IF num = <<>> THEN FZero
  ELSE RoundScaled(num, den, e, MantBits - (BBitLen(num) - BBitLen(den)),
                   ScaledDivMod(num, den,
                                MantBits - (BBitLen(num) - BBitLen(den))))

FLess(a, b) ==
  IF b.m = <<>> THEN FALSE
  ELSE IF a.m = <<>> THEN TRUE
  ELSE IF a.e # b.e THEN a.e < b.e
  ELSE BCmp(a.m, b.m) < 0

FDiv(a, b) == RoundToDouble(a.m, b.m, a.e - b.e)

FMul(a, b) == RoundToDouble(BMul(a.m, b.m), BOne, a.e + b.e)

\* Math.floor of a non-negative value
FFloor(a) ==
  IF a.e >= 0 THEN a
  ELSE RoundToDouble(BDivMod(a.m, BShl(BOne, -a.e))[1], BOne, 0)

\* ------------------------------------------------------------------------
\* Decimal strings: [n, d] is the numeral of n / 10^d written with exactly d
\* digits after the point (d = 0: no point).
\* ------------------------------------------------------------------------
Dec(n, d) == [n |-> n, d |-> d]

\* parseFloat(str)
ParseFloat(str) == RoundToDouble(BFromInt(str.n), BFromInt(Pow(10, str.d)), 0)

\* p / d rounded to the nearest integer, the larger on a tie (qr = p divmod d)
RoundHalfUp(qr, d) ==
  BToInt(qr[1]) + (IF BCmp(BAdd(qr[2], qr[2]), d) >= 0 THEN 1 ELSE 0)

\* x.toFixed(f): the integer n with n / 10^f closest to x, the larger on a tie
ToFixed(x, f) ==
  IF x.e >= 0
  THEN Dec(BToInt(BShl(BMul(x.m, BFromInt(Pow(10, f))), x.e)), f)
  ELSE Dec(RoundHalfUp(BDivMod(BMul(x.m, BFromInt(Pow(10, f))),
                               BShl(BOne, -x.e)),
                       BShl(BOne, -x.e)), f)

\* stepStr.includes('.') ? stepStr.split('.')[1].length : 0
Decimals(str) == str.d

\* Math.floor(rawQty / step) * step
FloorToStep(rawQty, step) == FMul(FFloor(FDiv(rawQty, step)), step)

\* let qty = rawQty < minQty ? minQty : Math.floor(rawQty / step) * step
FirstClamp(rawQty, minQty, step) ==
  IF FLess(rawQty, minQty) THEN minQty ELSE FloorToStep(rawQty, step)

\* if (qty < minQty) qty = minQty
ReClamp(qty, minQty) == IF FLess(qty, minQty) THEN minQty ELSE qty

\* parseFloat(qty.toFixed(decimals))
RoundToDecimals(qty, decimals) == ParseFloat(ToFixed(qty, decimals))

\* The MIN QTY FETCH & ROUND block: rawQty is the parsed quantity, the other
\* two the strings of the lot size filter.  The result is adjustedQty.
Normalize(rawQty, minQtyStr, stepStr) ==
  RoundToDecimals(ReClamp(FirstClamp(rawQty, ParseFloat(minQtyStr),
                                     ParseFloat(stepStr)),
                          ParseFloat(minQtyStr)),
                  Decimals(stepStr))

\* ------------------------------------------------------------------------
\* Part 2: the state.  The database tables and the exchange are shared by all
\* requests; req[r] holds the local variables of the handler invocation r.
\* ------------------------------------------------------------------------
NumRequests == 2

MaxTime == 2

Requests == 1..NumRequests

\* null / undefined, for values that are objects when present
None == [null |-> TRUE]

VARIABLES
  now,       \* the clock read by new Date() and Date.now()
  envOk,     \* SUPABASE_URL and SUPABASE_SERVICE_KEY are both set
  webhooks,  \* table webhooks: set of rows
  bots,      \* table bots: bot id -> row
  trades,    \* table trades: rows in insertion order
  orders,    \* calls of executeBybitOrder, in call order
  req,       \* request -> the locals of its handler invocation
  norm,      \* the quantity normalization run on its own (QtySpec)
  gen        \* request -> the locals of its generateWebhook invocation

vars == <<now, envOk, webhooks, bots, trades, orders, req, norm, gen>>

\* Table api_keys (never written by the edge functions)
ApiKeys ==
  { [user_id |-> "u1", exchange |-> "bybit", api_key |-> "k1"],
    [user_id |-> "u2", exchange |-> "bybit", api_key |-> "k2"],
    [user_id |-> "u3", exchange |-> "binance", api_key |-> "k3"] }

InitWebhooks ==
  { [webhook_token |-> "tokTest", user_id |-> "u1", bot_id |-> "botTest",
     expires_at |-> 1],
    [webhook_token |-> "tokLive", user_id |-> "u2", bot_id |-> "botLive",
     expires_at |-> MaxTime + 1],
    [webhook_token |-> "tokNoKey", user_id |-> "u3", bot_id |-> "botNoKey",
     expires_at |-> MaxTime + 1] }

InitBots ==
  [b \in {"botTest", "botLive", "botNoKey"} |->
     [user_id          |-> CASE b = "botTest" -> "u1" [] b = "botLive" -> "u2"
                             [] OTHER -> "u3",
      test_mode        |-> (b = "botTest"),
      default_quantity |-> IF b = "botLive" THEN None ELSE Dec(7, 1),
      trade_count      |-> IF b = "botLive" THEN 3 ELSE 0,
      last_trade_at    |-> <<>>]]

\* URL tokens a caller may send: the stored ones and one that was never issued
UrlTokens == {"tokTest", "tokLive", "tokNoKey", "tokUnknown"}

Methods == {"OPTIONS", "GET", "POST"}

\* Request bodies: not JSON, the JSON value null, or an alert object whose
\* quantity member is absent or a number.  The other members of the alert
\* (symbol, side, orderType, price, stopLoss, takeProfit) are copied into the
\* order parameters and select nothing in the handler.  A caller may add
\* members that name an account (user_id, bot_id): here those of the live bot.
Bodies ==
  { [kind |-> "invalid", quantity |-> None, user_id |-> "", bot_id |-> ""],
    [kind |-> "null", quantity |-> None, user_id |-> "", bot_id |-> ""],
    [kind |-> "object", quantity |-> None, user_id |-> "", bot_id |-> ""],
    [kind |-> "object", quantity |-> None, user_id |-> "u2",
     bot_id |-> "botLive"],
    [kind |-> "object", quantity |-> Dec(35, 2), user_id |-> "", bot_id |-> ""] }

\* Answers of GET /v5/market/instruments-info: the fetch rejects, retCode is
\* not 0, result.list is empty, or a lot size filter is returned.
InstrumentAnswers ==
  { [kind |-> "reject",  minQtyStr |-> None, stepStr |-> None],
    [kind |-> "retCode", minQtyStr |-> None, stepStr |-> None],
    [kind |-> "empty",   minQtyStr |-> None, stepStr |-> None],
    [kind |-> "ok",      minQtyStr |-> Dec(1, 1), stepStr |-> Dec(1, 1)] }

\* Locals before the handler runs.  tradeError and botUpdateError are "unset"
\* until the call returned, then "null" (no error) or "error"; trade_count 0
\* stands for 0 and for null alike (both are falsy where it is read);
\* last_trade_at is <<>> (null) or <<time>>.
IdleReq ==
  [pc |-> "idle", method |-> "", at |-> 0, token |-> "",
   webhook |-> None, bot |-> None,
   alertData |-> None, apiKey |-> None, adjustedQty |-> None,
   orderResult |-> None, tradeError |-> "unset", botUpdateError |-> "unset",
   response |-> None]

IdleNorm == [stage |-> 0]

\* Locals before generateWebhook runs; insertError is "unset" until the insert
\* returned, then "null" or "error"
IdleGen ==
  [pc |-> "idle", method |-> "", body |-> None, at |-> 0,
   webhookToken |-> <<>>, expirationDate |-> 0, insertError |-> "unset",
   response |-> None]

Init ==
  /\ now = 0
  /\ envOk \in BOOLEAN
  /\ webhooks = InitWebhooks
  /\ bots = InitBots
  /\ trades = <<>>
  /\ orders = <<>>
  /\ req = [r \in Requests |-> IdleReq]
  /\ norm = IdleNorm
  /\ gen = [g \in Requests |-> IdleGen]

\* new Response(JSON.stringify(body), {status})
Response(status, body) == [status |-> status, body |-> body]

ErrorBody(msg) == [error |-> msg]

\* The handler returns resp: the invocation is over
Return(r, resp) == req' = [req EXCEPT ![r].pc = "done", ![r].response = resp]

\* Lines 252-265: the response of the catch block
CatchResponseOk(msg) == Response(200, ErrorBody(msg))

CatchResponse(msg) == Response(500, ErrorBody(msg))

\* Lines 12-78, up to the first await: the method and configuration checks;
\* then the token is cut from the URL path and the webhooks query is built
\* with the clock read at line 77 (at).  A request answered before that
\* keeps in at the time it came in.
Receive(r) ==
  /\ req[r].pc = "idle"
  /\ \E method \in Methods, token \in UrlTokens :
       LET got == [req[r] EXCEPT !.method = method, !.at = now,
                                !.token = IF method = "POST" THEN token ELSE ""]
       IN  IF method = "OPTIONS"
           THEN req' = [req EXCEPT ![r] =
                  [got EXCEPT !.pc = "done", !.response = Response(204, None)]]
           ELSE IF method # "POST"
           THEN req' = [req EXCEPT ![r] =
                  [got EXCEPT !.pc = "done",
                     !.response = Response(405, ErrorBody("Method not allowed"))]]
           ELSE IF ~envOk
           THEN req' = [req EXCEPT ![r] =
                  [got EXCEPT !.pc = "done",
                     !.response =
                        Response(500, ErrorBody("Server configuration error"))]]
           ELSE req' = [req EXCEPT ![r] = [got EXCEPT !.pc = "lookup"]]
  /\ UNCHANGED <<now, envOk, webhooks, bots, trades, orders, norm, gen>>

\* .single(): the one row of the result, an error unless there is exactly one
Single(rows) == IF Cardinality(rows) = 1 THEN CHOOSE w \in rows : TRUE ELSE None

\* .gt('expires_at', new Date().toISOString())
UnexpiredAlways(w, at) == TRUE

Unexpired(w, at) == w.expires_at > at

\* Lines 73-92: the webhook row with this token that is not expired, joined
\* with its bots row
VerifyWebhook(r) ==
  /\ req[r].pc = "lookup"
  /\ LET webhook == Single({w \in webhooks :
                              /\ w.webhook_token = req[r].token
                              /\ Unexpired(w, req[r].at)})
     IN  IF webhook = None
         THEN Return(r, Response(404, ErrorBody("Invalid or expired webhook")))
         ELSE req' = [req EXCEPT ![r].pc = "creds",
                                 ![r].webhook = webhook,
                                 ![r].bot = bots[webhook.bot_id]]
  /\ UNCHANGED <<now, envOk, webhooks, bots, trades, orders, norm, gen>>

\* Lines 94-101: request.json(), {} when the body does not parse
ParseBody(body) ==
  CASE body.kind = "invalid" -> [quantity |-> None, user_id |-> "", bot_id |-> ""]
    [] body.kind = "null"    -> None
    [] OTHER                 -> [quantity |-> body.quantity,
                                 user_id |-> body.user_id, bot_id |-> body.bot_id]

\* Lines 94-124: the body is parsed, then the user's bybit key is loaded
LoadApiKey(r) ==
  /\ req[r].pc = "creds"
  /\ \E body \in Bodies :
       LET apiKey == Single({k \in ApiKeys :
                               /\ k.user_id = req[r].webhook.user_id
                               /\ k.exchange = "bybit"})
       IN  IF apiKey = None
           THEN Return(r, Response(400, ErrorBody("API credentials not found")))
           ELSE req' = [req EXCEPT ![r].pc = "fetch",
                                   ![r].alertData = ParseBody(body),
                                   ![r].apiKey = apiKey]
  /\ UNCHANGED <<now, envOk, webhooks, bots, trades, orders, norm, gen>>

\* a ?? b
Coalesce(a, b) == IF a # None THEN a ELSE b

\* parseFloat(alertData.quantity ?? bot.default_quantity ?? 0)
RawQty(alertData, bot) ==
  ParseFloat(Coalesce(alertData.quantity, Coalesce(bot.default_quantity, Dec(0, 0))))

\* adjustedQty of lines 139-149 for an alert, the bot read with the webhook
\* and a lot size filter
AdjustedQty(alertData, bot, info) ==
  Normalize(RawQty(alertData, bot), info.minQtyStr, info.stepStr)

\* The values of AdjustedQty for every alert, bot and filter of this model,
\* computed once
AdjustedQtyTable ==
  { <<alertData, default, info,
      AdjustedQty(alertData, [default_quantity |-> default], info)>> :
      alertData \in {ParseBody(b) : b \in Bodies} \ {None},
      default \in {InitBots[b].default_quantity : b \in DOMAIN InitBots},
      info \in {a \in InstrumentAnswers : a.kind = "ok"} }

AdjustedQtyOf(alertData, bot, info) ==
  (CHOOSE t \in AdjustedQtyTable :
     /\ t[1] = alertData
     /\ t[2] = bot.default_quantity
     /\ t[3] = info)[4]

\* Lines 126-149: instrument info is fetched and the quantity normalized; a
\* null alert makes alertData.symbol throw, as do a rejected fetch, a non-zero
\* retCode and an empty list
FetchInstrument(r) ==
  /\ req[r].pc = "fetch"
  /\ IF req[r].alertData = None
     THEN Return(r, CatchResponse("TypeError"))
     ELSE \E info \in InstrumentAnswers :
            CASE info.kind = "reject" ->
                   Return(r, CatchResponse("fetch failed"))
              [] info.kind = "retCode" ->
                   Return(r, CatchResponse("InstrumentsInfo error"))
              [] info.kind = "empty" ->
                   Return(r, CatchResponse("TypeError"))
              [] OTHER ->
                   req' = [req EXCEPT
                     ![r].pc = "dispatch",
                     ![r].adjustedQty =
                        AdjustedQtyOf(req[r].alertData, req[r].bot, info)]
  /\ UNCHANGED <<now, envOk, webhooks, bots, trades, orders, norm, gen>>

\* Lines 156-167: the order parameters (the members copied unchanged from
\* the alert or the bot defaults are left out)
OrderParams(r) ==
  [apiKey   |-> req[r].apiKey.api_key,
   quantity |-> req[r].adjustedQty,
   testnet  |-> req[r].bot.test_mode]

\* Lines 180-188: the simulated order result
SimulatedOrder(orderParams, clock) ==
  [orderId |-> <<"test", clock>>, qty |-> orderParams.quantity,
   status |-> "TEST_ORDER"]

\* executeBybitOrder of utils/bybit.edge.mjs: the result for the n-th order
\* the exchange accepted
ExecuteBybitOrder(orderParams, n) ==
  [orderId |-> <<"bybit", n>>, qty |-> orderParams.quantity,
   status |-> "Created"]

\* Line 177: if (bot.test_mode)
IsTestModeNever(bot) == FALSE

IsTestMode(bot) == bot.test_mode

\* Lines 174-193: simulate when the bot is in test mode, else submit the order;
\* executeBybitOrder returns the exchange's result or throws
Dispatch(r) ==
  /\ req[r].pc = "dispatch"
  /\ IF IsTestMode(req[r].bot)
     THEN /\ req' = [req EXCEPT
                ![r].pc = "log",
                ![r].orderResult = SimulatedOrder(OrderParams(r), now)]
          /\ UNCHANGED orders
     ELSE /\ orders' = Append(orders, [by |-> r, params |-> OrderParams(r)])
          /\ \E accepted \in BOOLEAN :
               IF accepted
               THEN req' = [req EXCEPT
                      ![r].pc = "log",
                      ![r].orderResult =
                         ExecuteBybitOrder(OrderParams(r), Len(orders) + 1)]
               ELSE Return(r, CatchResponse("order failed"))
  /\ UNCHANGED <<now, envOk, webhooks, bots, trades, norm, gen>>

\* Lines 201-212: the row inserted into trades (by: the inserting request,
\* kept for the record only)
TradeRowFromAlert(r) ==
  [user_id    |-> IF req[r].alertData.user_id # "" THEN req[r].alertData.user_id
                  ELSE req[r].webhook.user_id,
   bot_id     |-> IF req[r].alertData.bot_id # "" THEN req[r].alertData.bot_id
                  ELSE req[r].webhook.bot_id,
   quantity   |-> req[r].orderResult.qty,
   order_id   |-> req[r].orderResult.orderId,
   status     |-> req[r].orderResult.status,
   created_at |-> now,
   by         |-> r]

TradeRow(r) ==
  [user_id    |-> req[r].webhook.user_id,
   bot_id     |-> req[r].webhook.bot_id,
   quantity   |-> req[r].orderResult.qty,
   order_id   |-> req[r].orderResult.orderId,
   status     |-> req[r].orderResult.status,
   created_at |-> now,
   by         |-> r]

\* Lines 214-218: the handler after the insert returned; an insert error is
\* only logged
AfterInsertThrowing(r, inserted) ==
  IF inserted
  THEN [req EXCEPT ![r].pc = "update", ![r].tradeError = "null"]
  ELSE [req EXCEPT ![r].pc = "done", ![r].tradeError = "error",
                   ![r].response = CatchResponse("insert failed")]

AfterInsertRetry(r, inserted) ==
  IF inserted
  THEN [req EXCEPT ![r].pc = "update", ![r].tradeError = "null"]
  ELSE [req EXCEPT ![r].tradeError = "error"]

AfterInsertSkipUpdate(r, inserted) ==
  [req EXCEPT ![r].pc = "respond",
              ![r].tradeError = IF inserted THEN "null" ELSE "error"]

AfterInsert(r, inserted) ==
  [req EXCEPT ![r].pc = "update",
              ![r].tradeError = IF inserted THEN "null" ELSE "error"]

\* Lines 197-218: the trade is logged
LogTradeUpsert(r) ==
  /\ req[r].pc = "log"
  /\ \E inserted \in BOOLEAN :
       /\ trades' =
            IF ~inserted THEN trades
            ELSE IF \E i \in 1..Len(trades) : trades[i].bot_id = TradeRow(r).bot_id
            THEN [i \in 1..Len(trades) |->
                    IF trades[i].bot_id = TradeRow(r).bot_id THEN TradeRow(r)
                    ELSE trades[i]]
            ELSE Append(trades, TradeRow(r))
       /\ req' = AfterInsert(r, inserted)
  /\ UNCHANGED <<now, envOk, webhooks, bots, orders, norm, gen>>

LogTrade(r) ==
  /\ req[r].pc = "log"
  /\ \E inserted \in BOOLEAN :
       /\ trades' = IF inserted THEN Append(trades, TradeRow(r)) ELSE trades
       /\ req' = AfterInsert(r, inserted)
  /\ UNCHANGED <<now, envOk, webhooks, bots, orders, norm, gen>>

\* bot.trade_count ? bot.trade_count + 1 : 1, bot being the copy of the row
\* read with the webhook
NextTradeCountAtomic(r) == bots[req[r].webhook.bot_id].trade_count + 1

NextTradeCount(r) ==
  IF req[r].bot.trade_count # 0 THEN req[r].bot.trade_count + 1 ELSE 1

\* Lines 230-234: the handler after the update returned; an update error is
\* only logged
AfterUpdateThrowing(r, updated) ==
  IF updated
  THEN [req EXCEPT ![r].pc = "respond", ![r].botUpdateError = "null"]
  ELSE [req EXCEPT ![r].pc = "done", ![r].botUpdateError = "error",
                   ![r].response = CatchResponse("update failed")]

AfterUpdate(r, updated) ==
  [req EXCEPT ![r].pc = "respond",
              ![r].botUpdateError = IF updated THEN "null" ELSE "error"]

\* Lines 220-234: the bot row is updated
UpdateBot(r) ==
  /\ req[r].pc = "update"
  /\ \E updated \in BOOLEAN :
       /\ bots' = IF updated
                  THEN [bots EXCEPT
                          ![req[r].webhook.bot_id].last_trade_at = <<now>>,
                          ![req[r].webhook.bot_id].trade_count = NextTradeCount(r)]
                  ELSE bots
       /\ req' = AfterUpdate(r, updated)
  /\ UNCHANGED <<now, envOk, webhooks, trades, orders, norm, gen>>

\* Lines 236-251: the success response
Respond(r) ==
  /\ req[r].pc = "respond"
  /\ Return(r, Response(200, [success  |-> TRUE,
                              orderId  |-> req[r].orderResult.orderId,
                              status   |-> req[r].orderResult.status,
                              testMode |-> req[r].bot.test_mode]))
  /\ UNCHANGED <<now, envOk, webhooks, bots, trades, orders, norm, gen>>

\* Time passes
Tick ==
  /\ now < MaxTime
  /\ now' = now + 1
  /\ UNCHANGED <<envOk, webhooks, bots, trades, orders, req, norm, gen>>

Next ==
  \/ \E r \in Requests :
       \/ Receive(r)
       \/ VerifyWebhook(r)
       \/ LoadApiKey(r)
       \/ FetchInstrument(r)
       \/ Dispatch(r)
       \/ LogTrade(r)
       \/ UpdateBot(r)
       \/ Respond(r)
  \/ Tick

Spec == Init /\ [][Next]_vars

\* ------------------------------------------------------------------------
\* Part 3: the quantity normalization on its own.  The inputs are drawn in
\* the initial state: the alert's quantity as the decimal numeral of its JSON
\* number, and the two strings of the lot size filter.  It is applied once,
\* then once more to its own result.
\* ------------------------------------------------------------------------
QtyMaxRaw == 8

QtyMaxMin == 4

QtyMaxStep == 2

QtyMaxDecimals == 1

Numerals(maxN) == {Dec(n, d) : n \in 0..maxN, d \in 0..QtyMaxDecimals}

QtyInit ==
  /\ now = 0
  /\ envOk = TRUE
  /\ webhooks = InitWebhooks
  /\ bots = InitBots
  /\ trades = <<>>
  /\ orders = <<>>
  /\ req = [r \in Requests |-> IdleReq]
  /\ gen = [g \in Requests |-> IdleGen]
  /\ \E rawStr \in Numerals(QtyMaxRaw), minQtyStr \in Numerals(QtyMaxMin),
        stepStr \in {st \in Numerals(QtyMaxStep) : st.n > 0} :
       norm = [stage |-> 0, rawStr |-> rawStr, minQtyStr |-> minQtyStr,
               stepStr |-> stepStr, adjustedQty |-> None, again |-> None]

\* Lines 139-149 on the drawn inputs
QtyNormalize ==
  /\ norm.stage = 0
  /\ norm' = [norm EXCEPT
       !.stage = 1,
       !.adjustedQty = Normalize(ParseFloat(norm.rawStr), norm.minQtyStr,
                                 norm.stepStr)]
  /\ UNCHANGED <<now, envOk, webhooks, bots, trades, orders, req, gen>>

\* Lines 139-149 once more, adjustedQty being the quantity of the next alert
QtyRenormalize ==
  /\ norm.stage = 1
  /\ norm' = [norm EXCEPT
       !.stage = 2,
       !.again = Normalize(norm.adjustedQty, norm.minQtyStr, norm.stepStr)]
  /\ UNCHANGED <<now, envOk, webhooks, bots, trades, orders, req, gen>>

QtyNext == QtyNormalize \/ QtyRenormalize

QtySpec == QtyInit /\ [][QtyNext]_vars

\* ------------------------------------------------------------------------
\* Part 3b: the webhook issuer, generateWebhook.  The clock counts ticks of
\* which TicksPerDay make a day; tick 0 is 31 January, 00:00, of a year that
\* is not a leap year.
\* ------------------------------------------------------------------------
TicksPerDay == 2

TokenLen == 2

\* nanoid's alphabet is A-Za-z0-9_- : here one letter and the two signs
NanoidAlphabet == {"A", "_", "-"}

RECURSIVE Words(_, _)
Words(alphabet, n) ==
  IF n = 0 THEN {<<>>}
  ELSE {<<c>> \o w : c \in alphabet, w \in Words(alphabet, n - 1)}

\* nanoid(32), the length cut to TokenLen
Nanoid == Words(NanoidAlphabet, TokenLen)

MonthDays == <<31, 28, 31, 30, 31, 30, 31, 31, 30, 31, 30, 31>>

\* Days of month m, months counted from January of the first year
DaysInMonth(m) == MonthDays[((m - 1) % 12) + 1]

\* The month that holds day number day (day 0 is 1 January), searched from
\* month m which starts on day number start: <<month, its first day>>
RECURSIVE MonthFrom(_, _, _)
MonthFrom(m, start, day) ==
  IF day < start + DaysInMonth(m) THEN <<m, start>>
  ELSE MonthFrom(m + 1, start + DaysInMonth(m), day)

\* Day(t), TimeWithinDay(t), MonthFromTime(t), DateFromTime(t) of a time value
Day(t) == t \div TicksPerDay

TimeWithinDay(t) == t % TicksPerDay

MonthFromTime(t) == MonthFrom(1, 0, Day(t))[1]

\* Date.prototype.getDate
GetDate(t) == Day(t) - MonthFrom(1, 0, Day(t))[2] + 1

\* MakeDay(year, month, dt): dt may lie outside the month
MakeDay(t, dt) == MonthFrom(1, 0, Day(t))[2] + dt - 1

MakeDate(day, time) == day * TicksPerDay + time

\* Date.prototype.setDate
SetDate(t, dt) == MakeDate(MakeDay(t, dt), TimeWithinDay(t))

\* new Date(): the time value of the clock
NewDate(clock) == MakeDate(30, 0) + clock

\* Date.prototype.toISOString: the calendar fields of the time value
ToISOString(t) ==
  [month |-> MonthFromTime(t), date |-> GetDate(t), time |-> TimeWithinDay(t)]

\* Bodies of a generateWebhook request: not JSON, the JSON value null, or an
\* object; userId and botId are "" when absent (or falsy), expirationDays is
\* <<>> when absent and <<n>> for the number n
ExpirationDaysValues == {<<>>, <<0>>, <<1>>, <<7>>}

GenBodies ==
  { [kind |-> "invalid", userId |-> "", botId |-> "", expirationDays |-> <<>>],
    [kind |-> "null", userId |-> "", botId |-> "", expirationDays |-> <<>>] }
  \cup
  { [kind |-> "object", userId |-> u, botId |-> b, expirationDays |-> e] :
      u \in {"", "u1"}, b \in {"", "botTest"}, e \in ExpirationDaysValues }

\* const { userId, botId, expirationDays = 30 } = body
ExpirationDays(body) ==
  IF body.expirationDays = <<>> THEN 30 ELSE body.expirationDays[1]

\* Lines 91-92: new Date() moved on by expirationDays days
ExpirationDateSetOnly(t, expirationDays) == SetDate(t, expirationDays)

ExpirationDate(t, expirationDays) == SetDate(t, GetDate(t) + expirationDays)

\* Line 72: !userId || !botId
MissingFields(body) == body.userId = "" \/ body.botId = ""

GenReturn(g, resp) ==
  gen' = [gen EXCEPT ![g].pc = "done", ![g].response = resp]

\* Lines 12-66: the method and configuration checks, then the body is read
GenReceive(g) ==
  /\ gen[g].pc = "idle"
  /\ \E method \in Methods, body \in GenBodies :
       LET got == [gen[g] EXCEPT !.method = method,
                     !.body = IF method = "POST" /\ envOk THEN body ELSE None]
       IN  IF method = "OPTIONS"
           THEN gen' = [gen EXCEPT ![g] =
                  [got EXCEPT !.pc = "done", !.response = Response(204, None)]]
           ELSE IF method # "POST"
           THEN gen' = [gen EXCEPT ![g] =
                  [got EXCEPT !.pc = "done",
                     !.response = Response(405, ErrorBody("Method not allowed"))]]
           ELSE IF ~envOk
           THEN gen' = [gen EXCEPT ![g] =
                  [got EXCEPT !.pc = "done",
                     !.response =
                        Response(500, ErrorBody("Server configuration error"))]]
           ELSE gen' = [gen EXCEPT ![g] = [got EXCEPT !.pc = "parse"]]
  /\ UNCHANGED <<now, envOk, webhooks, bots, trades, orders, req, norm>>

\* Lines 66-105: request.json() throws on a body that is not JSON and the
\* destructuring throws on null; the fields are validated, the token and the
\* expiration date are made and the insert is sent
GenValidate(g) ==
  /\ gen[g].pc = "parse"
  /\ IF gen[g].body.kind \in {"invalid", "null"}
     THEN GenReturn(g, CatchResponse("body"))
     ELSE IF MissingFields(gen[g].body)
     THEN GenReturn(g, Response(400, ErrorBody("Missing required fields")))
     ELSE \E webhookToken \in Nanoid :
            gen' = [gen EXCEPT
              ![g].pc = "insert",
              ![g].at = NewDate(now),
              ![g].webhookToken = webhookToken,
              ![g].expirationDate =
                 ExpirationDate(NewDate(now), ExpirationDays(gen[g].body))]
  /\ UNCHANGED <<now, envOk, webhooks, bots, trades, orders, req, norm>>

\* Lines 99-105: the row inserted into webhooks (by: the inserting request,
\* kept for the record only)
WebhookRow(g) ==
  [user_id       |-> gen[g].body.userId,
   bot_id        |-> gen[g].body.botId,
   webhook_token |-> gen[g].webhookToken,
   expires_at    |-> ToISOString(gen[g].expirationDate),
   created_at    |-> ToISOString(gen[g].at),
   by            |-> g]

\* Lines 97-110: the insert returns; the database has stored the row or
\* reports an error
GenInsert(g) ==
  /\ gen[g].pc = "insert"
  /\ \E inserted \in BOOLEAN :
       /\ webhooks' = IF inserted THEN webhooks \cup {WebhookRow(g)} ELSE webhooks
       /\ gen' = [gen EXCEPT ![g].pc = "respond",
                   ![g].insertError = IF inserted THEN "null" ELSE "error"]
  /\ UNCHANGED <<now, envOk, bots, trades, orders, req, norm>>

\* Lines 115-119: the callback URL, as the pieces of the string ("/" is a
\* piece of its own, the token is one piece per character)
BaseUrl == <<"https:", "/", "/", "host">>

WebhookUrl(webhookToken) ==
  BaseUrl \o <<"/", ".netlify", "/", "functions", "/", "processAlert", "/">>
          \o webhookToken

\* processAlert lines 66-68: the last of the parts split at "/"
RECURSIVE LastSegment(_)
LastSegment(url) ==
  IF url = <<>> \/ url[Len(url)] = "/" THEN <<>>
  ELSE Append(LastSegment(SubSeq(url, 1, Len(url) - 1)), url[Len(url)])

\* Lines 107-147: an insert error is thrown to the catch block; else the URL
\* and the expiration date are returned
GenRespond(g) ==
  /\ gen[g].pc = "respond"
  /\ IF gen[g].insertError = "error"
     THEN GenReturn(g, CatchResponse("insert failed"))
     ELSE GenReturn(g, Response(200,
            [webhookUrl |-> WebhookUrl(gen[g].webhookToken),
             expiresAt  |-> ToISOString(gen[g].expirationDate)]))
  /\ UNCHANGED <<now, envOk, webhooks, bots, trades, orders, req, norm>>

\* The issuer on an empty webhooks table
GenInit ==
  /\ now = 0
  /\ envOk \in BOOLEAN
  /\ webhooks = {}
  /\ bots = InitBots
  /\ trades = <<>>
  /\ orders = <<>>
  /\ req = [r \in Requests |-> IdleReq]
  /\ norm = IdleNorm
  /\ gen = [g \in Requests |-> IdleGen]

GenNext ==
  \/ \E g \in Requests :
       \/ GenReceive(g)
       \/ GenValidate(g)
       \/ GenInsert(g)
       \/ GenRespond(g)
  \/ Tick

GenSpec == GenInit /\ [][GenNext]_vars

\* ------------------------------------------------------------------------
\* Part 3c: alerts for the live bot one after another, each with the body {},
\* the configuration being present.  A handler instance that has responded takes the next
\* request, which comes in later; at most NumRequests requests are in
\* progress at a time.
\* ------------------------------------------------------------------------
SerialInit == Init /\ envOk

\* A POST on the live bot's webhook URL comes in
ReceiveAlert(r) ==
  /\ Receive(r)
  /\ req'[r].method = "POST"
  /\ req'[r].token = "tokLive"

NextRequest(r) ==
  /\ req[r].pc = "done"
  /\ now < MaxTime
  /\ now' = now + 1
  /\ req' = [req EXCEPT ![r] = IdleReq]
  /\ UNCHANGED <<envOk, webhooks, bots, trades, orders, norm, gen>>

\* The body {} is read and the key loaded
LoadEmptyAlert(r) ==
  /\ LoadApiKey(r)
  /\ req'[r].alertData = [quantity |-> None, user_id |-> "", bot_id |-> ""]

SerialNext ==
  \E r \in Requests :
    \/ ReceiveAlert(r)
    \/ VerifyWebhook(r)
    \/ LoadEmptyAlert(r)
    \/ FetchInstrument(r)
    \/ Dispatch(r)
    \/ LogTrade(r)
    \/ UpdateBot(r)
    \/ Respond(r)
    \/ NextRequest(r)

SerialSpec == SerialInit /\ [][SerialNext]_vars

\* ------------------------------------------------------------------------
\* Part 4: the properties.
\* ------------------------------------------------------------------------
\* A numeral's value times 10^QtyMaxDecimals, an integer
Scaled(str) == str.n * Pow(10, QtyMaxDecimals - str.d)

\* The numeral of the largest multiple of step that does not exceed raw
LargestMultiple(rawStr, stepStr) ==
  Dec((Scaled(rawStr) \div Scaled(stepStr)) * Scaled(stepStr), QtyMaxDecimals)

\* C1: the quantity placed in the order, after the final rounding to the
\* decimals of the step string, is never below minQty.
C1_AdjustedQtyAtLeastMinQty ==
  norm.stage >= 1 => ~FLess(norm.adjustedQty, ParseFloat(norm.minQtyStr))

\* C2: when rawQty >= minQty the normalized quantity is the largest multiple
\* of step that does not exceed rawQty.
C2_LargestMultipleOfStep ==
  (norm.stage >= 1 /\ Scaled(norm.rawStr) >= Scaled(norm.minQtyStr))
    => norm.adjustedQty = ParseFloat(LargestMultiple(norm.rawStr, norm.stepStr))

\* C3: normalizing a normalized quantity again returns the same value.
C3_NormalizeIdempotent ==
  norm.stage = 2 => norm.again = norm.adjustedQty

Done(r) == req[r].pc = "done"

IsPost(r) == req[r].method = "POST"

Status(r) == req[r].response.status

OrdersBy(r) == {i \in 1..Len(orders) : orders[i].by = r}

TradesBy(r) == {i \in 1..Len(trades) : trades[i].by = r}

\* The request submitted no order, attempted no insert and no bot update
NoSideEffects(r) ==
  /\ OrdersBy(r) = {}
  /\ TradesBy(r) = {}
  /\ req[r].orderResult = None
  /\ req[r].tradeError = "unset"
  /\ req[r].botUpdateError = "unset"

\* No webhook row has the request's token, or every such row is expired (the
\* request time exceeds its expires_at)
TokenUnknownOrExpired(r) ==
  \A w \in webhooks : w.webhook_token = req[r].token => req[r].at > w.expires_at

\* C4 as stated: a POST whose token matches no row, or only an expired one, is
\* answered 404 whatever the body, without order, trade or bot update.
C4_Original ==
  \A r \in Requests :
    (Done(r) /\ IsPost(r) /\ TokenUnknownOrExpired(r))
      => (Status(r) = 404 /\ NoSideEffects(r))

\* C4 amended: such a POST never gets past the webhook lookup and has no side
\* effect; it is answered 404 when the Supabase configuration is present (and
\* 500 when it is not).
C4_UnknownOrExpiredToken ==
  \A r \in Requests :
    (IsPost(r) /\ TokenUnknownOrExpired(r))
      => /\ req[r].pc \in {"lookup", "done"}
         /\ NoSideEffects(r)
         /\ Done(r) => Status(r) = (IF envOk THEN 404 ELSE 500)

C4_Witness ==
  \E r \in Requests :
    /\ Done(r) /\ IsPost(r) /\ TokenUnknownOrExpired(r)
    /\ \E w \in webhooks : w.webhook_token = req[r].token
    /\ Status(r) = 404

\* C5: a request whose bot has test_mode = true never calls executeBybitOrder,
\* and every 200 response it returns carries status TEST_ORDER.
C5_TestModeNeverSubmits ==
  \A r \in Requests :
    (req[r].bot # None /\ req[r].bot.test_mode)
      => /\ OrdersBy(r) = {}
         /\ (Done(r) /\ Status(r) = 200)
              => req[r].response.body.status = "TEST_ORDER"

C5_Witness ==
  \E r \in Requests :
    /\ req[r].bot # None /\ req[r].bot.test_mode
    /\ Done(r) /\ Status(r) = 200

\* C6: any two simulated dispatches return different order identifiers.
C6_SimulatedOrderIdsDistinct ==
  \A r1, r2 \in Requests :
    (/\ r1 # r2
     /\ req[r1].orderResult # None /\ req[r1].bot.test_mode
     /\ req[r2].orderResult # None /\ req[r2].bot.test_mode)
      => req[r1].orderResult.orderId # req[r2].orderResult.orderId

\* C7: once dispatch succeeded the request goes on to a 200 response that
\* carries the orderId and status of the dispatch result, whether or not the
\* trade insert or the bot update failed.
C7_SuccessDespiteLogFailures ==
  \A r \in Requests :
    req[r].orderResult # None
      => /\ req[r].pc \in {"log", "update", "respond", "done"}
         /\ Done(r) => /\ Status(r) = 200
                       /\ req[r].response.body.orderId = req[r].orderResult.orderId
                       /\ req[r].response.body.status = req[r].orderResult.status

C7_Witness ==
  \E r \in Requests :
    /\ Done(r) /\ Status(r) = 200
    /\ req[r].tradeError = "error" /\ req[r].botUpdateError = "error"

\* The request ended before dispatch was reached
FailedBeforeDispatch(r) == Done(r) /\ IsPost(r) /\ req[r].adjustedQty = None

\* A step of a request that has not reached dispatch
BeforeDispatchStep(r) ==
  /\ req[r].pc \in {"idle", "lookup", "creds", "fetch"}
  /\ req'[r] # req[r]

\* C8: a request that fails before dispatch ends with an error response, has
\* submitted no order and attempted no insert or bot update, and none of its
\* steps changes the stored orders, trades or bots.
C8_FailureBeforeDispatchNoEffects ==
  /\ [](\A r \in Requests :
          FailedBeforeDispatch(r)
            => (Status(r) \in {400, 404, 500} /\ NoSideEffects(r)))
  /\ [][\A r \in Requests :
          BeforeDispatchStep(r) => UNCHANGED <<bots, trades, orders>>]_vars

C8_Witness ==
  \E r1, r2 \in Requests :
    /\ FailedBeforeDispatch(r1) /\ req[r1].webhook # None
    /\ req[r1].apiKey = None /\ Status(r1) = 400
    /\ FailedBeforeDispatch(r2) /\ req[r2].apiKey # None /\ Status(r2) = 500

ConfigMissing(r) == ~envOk

TokenUnresolved(r) == envOk /\ req[r].webhook = None

CredentialsMissing(r) == req[r].webhook # None /\ req[r].apiKey = None

\* The null body, the instrument fetch or the normalization threw
NormalizationFailed(r) == req[r].apiKey # None /\ req[r].adjustedQty = None

DispatchFailed(r) == req[r].adjustedQty # None /\ req[r].orderResult = None

\* C9 as stated: a POST gets an error response only when token resolution
\* fails, credentials are missing or the dispatch call fails.
C9_Original ==
  \A r \in Requests :
    (Done(r) /\ IsPost(r) /\ Status(r) # 200)
      => (TokenUnresolved(r) \/ CredentialsMissing(r) \/ DispatchFailed(r))

\* C9 amended: a POST gets an error response exactly when the configuration is
\* missing (500), token resolution fails (404), credentials are missing (400),
\* the body is null or the instrument fetch or normalization throws (500), or
\* the dispatch call fails (500); in every other execution, a failed trade
\* insert or bot update included, it returns 200.
C9_ErrorResponses ==
  \A r \in Requests :
    (Done(r) /\ IsPost(r))
      => Status(r) = (CASE ConfigMissing(r)       -> 500
                        [] TokenUnresolved(r)     -> 404
                        [] CredentialsMissing(r)  -> 400
                        [] NormalizationFailed(r) -> 500
                        [] DispatchFailed(r)      -> 500
                        [] OTHER                  -> 200)

C9_Witness ==
  \E r1, r2 \in Requests :
    /\ Done(r1) /\ IsPost(r1) /\ NormalizationFailed(r1) /\ Status(r1) = 500
    /\ Done(r2) /\ IsPost(r2) /\ req[r2].botUpdateError = "error"
    /\ req[r2].tradeError = "null" /\ Status(r2) = 200

\* Both requests are answered 200 after a successful update of the same bot,
\* from copies of the bot row that held the same trade_count
RacedOn(r1, r2) ==
  /\ r1 # r2
  /\ Done(r1) /\ Status(r1) = 200 /\ req[r1].botUpdateError = "null"
  /\ Done(r2) /\ Status(r2) = 200 /\ req[r2].botUpdateError = "null"
  /\ req[r1].webhook.bot_id = req[r2].webhook.bot_id
  /\ req[r1].bot.trade_count = req[r2].bot.trade_count

\* No request other than r1 and r2 has updated the bot of r1
OnlyWriters(r1, r2) ==
  \A r \in Requests \ {r1, r2} :
    req[r].botUpdateError = "null"
      => req[r].webhook.bot_id # req[r1].webhook.bot_id

\* C10: when two requests for the same bot both read the bot row before either
\* wrote it, both updates succeed and both are answered 200, trade_count ends
\* only 1 above the value they read: one update is lost.
C10_LostUpdate ==
  \A r1, r2 \in Requests :
    (RacedOn(r1, r2) /\ OnlyWriters(r1, r2))
      => bots[req[r1].webhook.bot_id].trade_count = req[r1].bot.trade_count + 1

C10_Witness ==
  \E r1, r2 \in Requests :
    /\ RacedOn(r1, r2)
    /\ req[r1].webhook.bot_id = "botLive"
    /\ Len(trades) = 2
    /\ bots["botLive"].trade_count = InitBots["botLive"].trade_count + 1

\* The webhook row a request's URL token names
RowOfToken(r) == CHOOSE w \in InitWebhooks : w.webhook_token = req[r].token

\* What the record of request r is by the request's own inputs and the stored
\* configuration alone: the account of its token, the quantity normalized from
\* its payload, the stored default and the lot size filter, and the status of
\* the stored mode.  (order_id and created_at are given by the exchange and by
\* the clock.)
RecordOfInputs(r) ==
  [user_id  |-> RowOfToken(r).user_id,
   bot_id   |-> RowOfToken(r).bot_id,
   quantity |-> AdjustedQtyOf(req[r].alertData, InitBots[RowOfToken(r).bot_id],
                              CHOOSE a \in InstrumentAnswers : a.kind = "ok"),
   status   |-> IF InitBots[RowOfToken(r).bot_id].test_mode
                THEN "TEST_ORDER" ELSE "Created"]

RecordInputsOf(t) ==
  [user_id |-> t.user_id, bot_id |-> t.bot_id, quantity |-> t.quantity,
   status |-> t.status]

\* C11: the trade log is append-only and complete.  A request has exactly one
\* record once its insert returned without error and none otherwise; every
\* record is what its own request's inputs make it, whatever the other
\* requests did and in whatever order; no step changes or removes a record.
C11_AppendOnlyLog ==
  /\ [](\A r \in Requests :
          /\ Cardinality(TradesBy(r)) = IF req[r].tradeError = "null" THEN 1 ELSE 0
          /\ (req[r].orderResult # None /\ req[r].tradeError = "unset")
               => req[r].pc = "log"
          /\ \A i \in TradesBy(r) : RecordInputsOf(trades[i]) = RecordOfInputs(r))
  /\ [][/\ Len(trades') >= Len(trades)
        /\ \A i \in 1..Len(trades) : trades'[i] = trades[i]]_vars

C11_Witness ==
  \E r1, r2 \in Requests :
    /\ r1 # r2
    /\ Done(r1) /\ Status(r1) = 200 /\ req[r1].tradeError = "null"
    /\ Done(r2) /\ Status(r2) = 200 /\ req[r2].tradeError = "null"
    /\ req[r1].webhook.bot_id = req[r2].webhook.bot_id
    /\ req[r1].alertData # req[r2].alertData
    /\ trades[1].by = r2 /\ trades[2].by = r1

GenDone(g) == gen[g].pc = "done"

GenStatus(g) == gen[g].response.status

WebhooksBy(g) == {w \in webhooks : w.by = g}

\* The body read by the handler has no userId or no botId
LacksUserOrBot(g) ==
  \/ gen[g].body.kind # "object"
  \/ gen[g].body.userId = ""
  \/ gen[g].body.botId = ""

\* C12: generateWebhook (the Supabase configuration being present) answers a
\* POST whose body lacks userId or botId with 400 and inserts no webhook row.
C12_MissingFieldsRejected ==
  \A g \in Requests :
    (GenDone(g) /\ gen[g].body # None /\ LacksUserOrBot(g))
      => (GenStatus(g) = 400 /\ WebhooksBy(g) = {})

\* The time value expirationDays days (30 when omitted) after time value t
DaysLater(t, body) == t + ExpirationDays(body) * TicksPerDay

\* C13: a 200 response of generateWebhook comes with exactly one inserted row
\* of that request; the last path segment of webhookUrl is the row's
\* webhook_token and expiresAt is the row's expires_at, the date
\* expirationDays days (30 when omitted) after the request time.  A request
\* whose insert failed is answered 500 without a URL and has no row.
\* (expirationDays is omitted or a whole number of days.)
C13_ResponseAgreesWithRecord ==
  \A g \in Requests :
    GenDone(g) =>
      /\ GenStatus(g) = 200 =>
            /\ Cardinality(WebhooksBy(g)) = 1
            /\ \A w \in WebhooksBy(g) :
                  /\ LastSegment(gen[g].response.body.webhookUrl) = w.webhook_token
                  /\ gen[g].response.body.expiresAt = w.expires_at
                  /\ w.expires_at = ToISOString(DaysLater(gen[g].at, gen[g].body))
      /\ gen[g].insertError = "error" =>
            /\ GenStatus(g) = 500
            /\ "webhookUrl" \notin DOMAIN gen[g].response.body
            /\ WebhooksBy(g) = {}

\* A default expiry that runs over the end of February, and a failed insert
C13_Witness ==
  \E g1, g2 \in Requests :
    /\ GenDone(g1) /\ GenStatus(g1) = 200
    /\ gen[g1].body.expirationDays = <<>>
    /\ gen[g1].response.body.expiresAt.month = 3
    /\ GenDone(g2) /\ gen[g2].insertError = "error"

\* The request's step is the bot update
UpdateStep(r) == req[r].pc = "update" /\ req'[r].pc # "update"

\* C14: credentials, orders, trade records and bot updates of a request go by
\* the user_id and bot_id of the webhook row of its URL token, whatever the
\* payload says: the key loaded and used is that user's, every record carries
\* that user_id and bot_id, and only that bot's row is ever updated.
C14_AttributionByToken ==
  /\ [](\A r \in Requests :
          /\ req[r].apiKey # None
               => req[r].apiKey.user_id = RowOfToken(r).user_id
          /\ \A i \in OrdersBy(r) :
               \E k \in ApiKeys : /\ k.user_id = RowOfToken(r).user_id
                                   /\ k.api_key = orders[i].params.apiKey
          /\ \A i \in TradesBy(r) :
               /\ trades[i].user_id = RowOfToken(r).user_id
               /\ trades[i].bot_id = RowOfToken(r).bot_id)
  /\ [][\A b \in DOMAIN bots :
          bots'[b] # bots[b]
            => \E r \in Requests : UpdateStep(r) /\ RowOfToken(r).bot_id = b]_vars

\* A request on the test bot's token whose payload names the live bot's
\* account was logged and counted
C14_Witness ==
  \E r \in Requests :
    /\ Done(r) /\ Status(r) = 200 /\ req[r].token = "tokTest"
    /\ req[r].alertData.user_id = "u2" /\ req[r].alertData.bot_id = "botLive"
    /\ req[r].tradeError = "null" /\ req[r].botUpdateError = "null"
    /\ bots["botTest"].trade_count = 1
    /\ bots["botLive"] = InitBots["botLive"]

\* The request's token is that of a stored webhook row
TokenExists(r) == \E w \in webhooks : w.webhook_token = req[r].token

\* C15: a token is expired exactly when the request time exceeds expires_at.
\* A POST (that got as far as the webhook lookup) for an existing token is not
\* answered 404 at a time t <= expires_at and is answered 404 at a time
\* t > expires_at.
C15_ExpiredExactlyAfterExpiresAt ==
  \A r \in Requests :
    (Done(r) /\ IsPost(r) /\ envOk /\ TokenExists(r))
      => (Status(r) = 404 <=> req[r].at > RowOfToken(r).expires_at)

\* The steps of a request in the order of the handler's code
StepOrder ==
  <<"idle", "lookup", "creds", "fetch", "dispatch", "log", "update", "respond",
    "done">>

Rank(pc) == CHOOSE i \in 1..Len(StepOrder) : StepOrder[i] = pc

TokenResolved(r) == req[r].webhook # None

CredentialsLoaded(r) == req[r].apiKey # None

QuantityNormalized(r) == req[r].adjustedQty # None

\* The order was submitted or simulated
DispatchStarted(r) == OrdersBy(r) # {} \/ req[r].orderResult # None

DispatchReturned(r) == req[r].orderResult # None

InsertAttempted(r) == req[r].tradeError # "unset"

UpdateAttempted(r) == req[r].botUpdateError # "unset"

\* C16: the steps of a request occur only in the order received, token
\* resolved, credentials loaded, quantity normalized, dispatched, logged,
\* responded: each step goes on to the next one or ends the request; an order
\* is dispatched only after the three steps before it, the insert and the
\* update are attempted only after dispatch returned, and 200 is sent only
\* after both were attempted.
C16_StepOrder ==
  /\ [](\A r \in Requests :
          /\ CredentialsLoaded(r) => TokenResolved(r)
          /\ QuantityNormalized(r) => CredentialsLoaded(r)
          /\ DispatchStarted(r) => QuantityNormalized(r)
          /\ InsertAttempted(r) => DispatchReturned(r)
          /\ UpdateAttempted(r) => (DispatchReturned(r) /\ InsertAttempted(r))
          /\ TradesBy(r) # {} => InsertAttempted(r)
          /\ (Done(r) /\ Status(r) = 200)
               => (InsertAttempted(r) /\ UpdateAttempted(r)))
  /\ [][\A r \in Requests :
          req'[r].pc # req[r].pc
            => \/ req'[r].pc = "done"
               \/ Rank(req'[r].pc) = Rank(req[r].pc) + 1]_vars
  /\ [][bots' # bots
          => \E r \in Requests : UpdateStep(r) /\ DispatchReturned(r)
                                   /\ InsertAttempted(r)]_vars

C16_Witness ==
  \E r \in Requests :
    /\ Done(r) /\ Status(r) = 200 /\ OrdersBy(r) # {}
    /\ req[r].tradeError = "error" /\ req[r].botUpdateError = "null"

\* The order was submitted and the call failed
SubmissionFailed(r) == OrdersBy(r) # {} /\ req[r].orderResult = None

\* C17: no step is retried.  A request submits at most one order and has at
\* most one record; an insert or an update that was attempted is not attempted
\* again, and a request that has responded does nothing more; a request whose
\* order submission failed is answered 500 and attempts neither insert nor
\* update.
C17_NoRetry ==
  /\ [](\A r \in Requests :
          /\ Cardinality(OrdersBy(r)) <= 1
          /\ Cardinality(TradesBy(r)) <= 1
          /\ SubmissionFailed(r)
               => /\ Done(r) /\ Status(r) = 500
                  /\ TradesBy(r) = {}
                  /\ ~InsertAttempted(r) /\ ~UpdateAttempted(r))
  /\ [][\A r \in Requests :
          /\ InsertAttempted(r) => req'[r].tradeError = req[r].tradeError
          /\ UpdateAttempted(r) => req'[r].botUpdateError = req[r].botUpdateError
          /\ req[r].response # None => req'[r] = req[r]
          /\ req'[r].response # None => Done(r)']_vars
  /\ [][/\ orders' # orders
           => \E r \in Requests : req[r].pc = "dispatch" /\ OrdersBy(r) = {}
                                    /\ req'[r].pc # "dispatch"
        /\ trades' # trades
           => \E r \in Requests : req[r].pc = "log" /\ ~InsertAttempted(r)
                                    /\ InsertAttempted(r)'
        /\ bots' # bots
           => \E r \in Requests : UpdateStep(r) /\ ~UpdateAttempted(r)]_vars

C17_Witness ==
  \E r1, r2 \in Requests :
    /\ Done(r1) /\ SubmissionFailed(r1) /\ Status(r1) = 500
    /\ Done(r2) /\ Status(r2) = 200 /\ Cardinality(OrdersBy(r2)) = 1
    /\ req[r1].token = req[r2].token

\* C18: no step lowers the stored trade_count of a bot.
C18_TradeCountNeverDecreases ==
  [][\A b \in DOMAIN bots : bots'[b].trade_count >= bots[b].trade_count]_vars
====
